---- MODULE Spec2Model ----
(***************************************************************************)
(* Listening-history report builder (src/app.js).                          *)
(*                                                                         *)
(* Two specifications over one set of variables:                           *)
(*   Spec     the aggregation pass of buildReport: one loop iteration per  *)
(*            record, then the derivation of the report;                   *)
(*   SpecRun  the Process click handler (handleProcess) with its awaits,   *)
(*            the file list handlers and the export collaborators.         *)
(*                                                                         *)
(* A JavaScript string is a sequence of characters; a character is named   *)
(* by a TLA+ string ("a", "SP" for U+0020, "US" for U+001F, "E_ACUTE" for  *)
(* U+00E9, "ACUTE" for U+0301).  A timestamp string is a sequence of its   *)
(* lexemes (a date, "SP" or "T", a time, "Z").                             *)
(***************************************************************************)
EXTENDS Integers, Sequences, FiniteSets, TLC

VARIABLES
  records,      \* buildReport: the records iterated so far (prefix of the input)
  preset,       \* buildReport: the leading records of the input, fixed beforehand
  acc,          \* buildReport: the five maps and three counters
  report,       \* the value buildReport returned, or NoReport
  pc,           \* "loop" | "done" (Spec);  position of handleProcess (SpecRun)
  stateFiles,   \* state.files: the elements of the array it refers to
  processing,   \* state.processing
  mode,         \* the checked outputMode radio
  libs,         \* which libraries loaded
  run,          \* locals of the in-flight handleProcess and parseUploadedFiles
  statusLog,    \* dom.statusLog entries
  exported      \* reports handed to the export collaborators

vars == <<records, preset, acc, report, pc, stateFiles, processing,
          mode, libs, run, statusLog, exported>>

aggVars == <<records, preset, acc, report>>
uiVars == <<stateFiles, processing, mode, libs, run, statusLog, exported>>

----------------------------------------------------------------------------
(* Sequence helpers *)

Range(s) == {s[i] : i \in 1..Len(s)}

Min(a, b) == IF a <= b THEN a ELSE b

\* the element of a one-element set: The({e(x) : x \in {v}}) is e(v)
The(S) == CHOOSE x \in S : TRUE

RECURSIVE SumOver(_, _)
\* sum of f[x] over the finite set S
SumOver(f, S) ==
  IF S = {} THEN 0
  ELSE LET x == CHOOSE y \in S : TRUE IN f[x] + SumOver(f, S \ {x})

\* Three-way comparison of two integer sequences, lexicographic.
RECURSIVE SeqCmp(_, _)
SeqCmp(x, y) ==
  IF x = <<>> /\ y = <<>> THEN 0
  ELSE IF x = <<>> THEN -1
  ELSE IF y = <<>> THEN 1
  ELSE IF Head(x) < Head(y) THEN -1
  ELSE IF Head(x) > Head(y) THEN 1
  ELSE SeqCmp(Tail(x), Tail(y))

\* a || b of two numbers: a unless a is 0
OrElse(a, b) == The({IF v # 0 THEN v ELSE b : v \in {a}})

\* Array.prototype.slice(0, n)
Slice0(s, n) == The({SubSeq(t, 1, Min(n, Len(t))) : t \in {s}})

\* Array.prototype.filter
FilterSeq(s, Test(_)) == SelectSeq(s, Test)

----------------------------------------------------------------------------
(* JavaScript values of a decoded JSON record *)

Str(s) == [t |-> "string", s |-> s, n |-> 0]
Num(tenths) == [t |-> "number", s |-> <<>>, n |-> tenths]   \* n is the value times ten
NaN == [t |-> "nan", s |-> <<>>, n |-> 0]
Null == [t |-> "null", s |-> <<>>, n |-> 0]
Undefined == [t |-> "undefined", s |-> <<>>, n |-> 0]
Bool(b) == [t |-> "boolean", s |-> <<>>, n |-> IF b THEN 1 ELSE 0]
\* the number a JSON literal beyond the range of doubles, such as 1e999, decodes to
Infinity == [t |-> "infinity", s |-> <<>>, n |-> 1]

KEY_SEP == "US"

\* the characters String.prototype.trim removes (U+001F is not one of them)
WhiteSpace == {"SP"}

RECURSIVE TrimStart(_)
TrimStart(s) ==
  IF s # <<>> /\ Head(s) \in WhiteSpace THEN TrimStart(Tail(s)) ELSE s

RECURSIVE TrimEnd(_)
TrimEnd(s) ==
  IF s # <<>> /\ s[Len(s)] \in WhiteSpace THEN TrimEnd(SubSeq(s, 1, Len(s) - 1)) ELSE s

\* String.prototype.trim
Trim(s) == TrimEnd(TrimStart(s))

cleanString(value) ==
  IF value.t # "string" THEN <<>> ELSE Trim(value.s)

\* Boolean(value)
Truthy(value) ==
  CASE value.t = "string" -> value.s # <<>>
    [] value.t = "number" -> value.n # 0
    [] value.t = "boolean" -> value.n = 1
    [] value.t = "infinity" -> TRUE
    [] OTHER -> FALSE

Digit == [c \in {"0", "1", "2", "3", "4", "5", "6", "7", "8", "9"} |->
           CASE c = "0" -> 0 [] c = "1" -> 1 [] c = "2" -> 2 [] c = "3" -> 3
             [] c = "4" -> 4 [] c = "5" -> 5 [] c = "6" -> 6 [] c = "7" -> 7
             [] c = "8" -> 8 [] c = "9" -> 9]

IsDigits(s) == s # <<>> /\ \A i \in 1..Len(s) : s[i] \in DOMAIN Digit

RECURSIVE DigitsValue(_)
DigitsValue(s) ==
  IF s = <<>> THEN 0 ELSE 10 * DigitsValue(SubSeq(s, 1, Len(s) - 1)) + Digit[s[Len(s)]]

\* Number(string) for decimal literals with at most one fractional digit; the
\* result is a Num (in tenths) or NaN.
StringToNumber(s0) ==
  LET s == Trim(s0)
      neg == s # <<>> /\ Head(s) = "-"
      u == IF neg THEN Tail(s) ELSE s
      dot == IF \E i \in 1..Len(u) : u[i] = "."
             THEN CHOOSE i \in 1..Len(u) : u[i] = "." /\ \A j \in 1..(i - 1) : u[j] # "."
             ELSE 0
      ip == IF dot = 0 THEN u ELSE SubSeq(u, 1, dot - 1)
      fp == IF dot = 0 THEN <<>> ELSE SubSeq(u, dot + 1, Len(u))
      mag == 10 * DigitsValue(ip) + (IF fp = <<>> THEN 0 ELSE Digit[fp[1]])
  IN IF s = <<>> THEN Num(0)
     ELSE IF IsDigits(ip) /\ (dot = 0 \/ (IsDigits(fp) /\ Len(fp) = 1))
       THEN Num(IF neg THEN 0 - mag ELSE mag)
       ELSE NaN

\* Number(value)
ToNumber(value) ==
  CASE value.t = "number" -> value
    [] value.t = "nan" -> NaN
    [] value.t = "infinity" -> value
    [] value.t = "string" -> StringToNumber(value.s)
    [] value.t = "boolean" -> Num(10 * value.n)
    [] value.t = "null" -> Num(0)
    [] OTHER -> NaN

\* sanitizeMs with Math.trunc in the place of Math.round
sanitizeMs_Truncating(value) ==
  LET num == ToNumber(value)
  IN IF num.t # "number" THEN 0
     ELSE IF num.n < 0 THEN 0
     ELSE num.n \div 10

sanitizeMs(value) ==
  LET num == ToNumber(value)
  IN IF num.t # "number" THEN 0
     ELSE IF num.n < 0 THEN 0
     ELSE (num.n + 5) \div 10

----------------------------------------------------------------------------
(* String.prototype.localeCompare: comparison of multi-level collation keys *)
(* of the canonically decomposed strings (primary: base letter; secondary: *)
(* accent; tertiary: case).  U+001F has no weight at any level.            *)

Alphabet == <<"a", "b", "c", "d", "e", "f", "g", "h">>

\* canonical decomposition of one character
Decompose(c) == IF c = "E_ACUTE" THEN <<"e", "ACUTE">> ELSE <<c>>

RECURSIVE NFD(_)
NFD(s) == IF s = <<>> THEN <<>> ELSE Decompose(Head(s)) \o NFD(Tail(s))

\* collation element of a character: <<primary, secondary, tertiary>>
CollationElement(c) ==
  CASE c = "US" -> <<0, 0, 0>>
    [] c = "ACUTE" -> <<0, 2, 1>>
    [] c = "SP" -> <<1, 1, 1>>
    [] c = "-" -> <<2, 1, 1>>
    [] c = "." -> <<3, 1, 1>>
    [] c \in DOMAIN Digit -> <<10 + Digit[c], 1, 1>>
    [] c = "A" -> <<21, 1, 2>>
    [] \E i \in 1..Len(Alphabet) : Alphabet[i] = c ->
         <<20 + (CHOOSE i \in 1..Len(Alphabet) : Alphabet[i] = c), 1, 1>>
    [] OTHER -> <<99, 1, 1>>

RECURSIVE CollationKey(_, _)
\* the weights of one level, zero weights dropped
CollationKey(s, level) ==
  IF s = <<>> THEN <<>>
  ELSE LET w == CollationElement(Head(s))[level]
       IN (IF w = 0 THEN <<>> ELSE <<w>>) \o CollationKey(Tail(s), level)

\* the comparison of two decomposed strings at one level
CompareLevel(dx, dy, level) == SeqCmp(CollationKey(dx, level), CollationKey(dy, level))

localeCompare(x, y) ==
  The({ OrElse(CompareLevel(dx, dy, 1), OrElse(CompareLevel(dx, dy, 2), CompareLevel(dx, dy, 3)))
        : dx \in {NFD(x)}, dy \in {NFD(y)} })

----------------------------------------------------------------------------
(* Classification, timestamps, keys *)

\* isSongRecord without the test of the episode URI
isSongRecord_NoEpisodeUri(record) ==
  LET trackName == cleanString(record.master_metadata_track_name)
      artistName == cleanString(record.master_metadata_album_artist_name)
      episodeName == cleanString(record.episode_name)
  IN IF trackName = <<>> \/ artistName = <<>> THEN FALSE
     ELSE IF episodeName # <<>> THEN FALSE
     ELSE TRUE

isSongRecord(record) ==
  LET trackName == cleanString(record.master_metadata_track_name)
      artistName == cleanString(record.master_metadata_album_artist_name)
      episodeName == cleanString(record.episode_name)
      episodeUri == cleanString(record.spotify_episode_uri)
  IN IF trackName = <<>> \/ artistName = <<>> THEN FALSE
     ELSE IF episodeName # <<>> \/ episodeUri # <<>> THEN FALSE
     ELSE TRUE

\* The date lexemes of the model and the UTC calendar fields they denote.  All
\* are mid-month, so that reading a zone-less time as local time gives the
\* same UTC month as reading it as UTC.
DateLexeme == [d \in {"2023-05-15", "2023-06-15", "2024-01-15"} |->
                CASE d = "2023-05-15" -> [year |-> 2023, month |-> 5]
                  [] d = "2023-06-15" -> [year |-> 2023, month |-> 6]
                  [] d = "2024-01-15" -> [year |-> 2024, month |-> 1]]

TimeLexeme == {"10:00:00"}

NoDate == [year |-> 0, month |-> 0]

\* new Date(string): the UTC year and month of the instant, or NoDate for an
\* Invalid Date.  Only the ISO forms parse.
DateParse(s) ==
  IF Len(s) >= 1 /\ s[1] \in DOMAIN DateLexeme
     /\ \/ Len(s) = 1
        \/ Len(s) = 3 /\ s[2] = "T" /\ s[3] \in TimeLexeme
        \/ Len(s) = 4 /\ s[2] = "T" /\ s[3] \in TimeLexeme /\ s[4] = "Z"
  THEN DateLexeme[s[1]]
  ELSE NoDate

\* String.prototype.replace(" ", "T"): the first space only
ReplaceFirstSpace(s) ==
  IF \E i \in 1..Len(s) : s[i] = "SP"
  THEN LET k == CHOOSE i \in 1..Len(s) : s[i] = "SP" /\ \A j \in 1..(i - 1) : s[j] # "SP"
       IN [i \in 1..Len(s) |-> IF i = k THEN "T" ELSE s[i]]
  ELSE s

parseTimestamp(value) ==
  IF value.t # "string" \/ Trim(value.s) = <<>> THEN NoDate
  ELSE LET date == DateParse(value.s)
           maybeIso == IF \E i \in 1..Len(value.s) : value.s[i] = "T"
                       THEN value.s ELSE ReplaceFirstSpace(value.s)
           withZone == IF maybeIso[Len(maybeIso)] = "Z" THEN maybeIso
                       ELSE Append(maybeIso, "Z")
       IN IF date # NoDate THEN date ELSE DateParse(withZone)

DigitChar(d) == <<"0", "1", "2", "3", "4", "5", "6", "7", "8", "9">>[d + 1]

RECURSIVE ToDigits(_)
\* String(n) for a natural number
ToDigits(n) ==
  IF n < 10 THEN <<DigitChar(n)>> ELSE Append(ToDigits(n \div 10), DigitChar(n % 10))

\* String.prototype.padStart(2, "0")
PadStart2(s) == IF Len(s) < 2 THEN <<"0">> \o s ELSE s

timestampToMonthKey(date) ==
  ToDigits(date.year) \o <<"-">> \o PadStart2(ToDigits(date.month))

makeSongKey(song, artist) == song \o <<KEY_SEP>> \o artist

splitSongKey(songKey) ==
  IF \E i \in 1..Len(songKey) : songKey[i] = KEY_SEP
  THEN LET splitIndex == CHOOSE i \in 1..Len(songKey) :
                           songKey[i] = KEY_SEP /\ \A j \in 1..(i - 1) : songKey[j] # KEY_SEP
       IN <<SubSeq(songKey, 1, splitIndex - 1), SubSeq(songKey, splitIndex + 1, Len(songKey))>>
  ELSE <<songKey, <<>>>>

----------------------------------------------------------------------------
(* Map: an insertion-ordered sequence of entries, each with a key field *)

MapHas(m, k) == \E i \in 1..Len(m) : m[i].key = k

MapIndex(m, k) == CHOOSE i \in 1..Len(m) : m[i].key = k

\* Map.prototype.get, of a key the map has
MapGet(m, k) == m[MapIndex(m, k)]

\* Map.prototype.set: an existing key keeps its place, a new key goes last
MapSet(m, entry) ==
  The({ IF MapHas(m, e.key) THEN [m EXCEPT ![MapIndex(m, e.key)] = e] ELSE Append(m, e)
        : e \in {entry} })

incrementCounter(counter, value) ==
  IF value = <<>> THEN counter
  ELSE MapSet(counter,
              [key |-> value,
               count |-> (IF MapHas(counter, value) THEN MapGet(counter, value).count ELSE 0) + 1])

RECURSIVE MostCommonFrom(_, _, _, _)
MostCommonFrom(counter, i, bestKey, bestCount) ==
  IF i > Len(counter) THEN bestKey
  ELSE IF counter[i].count > bestCount
    THEN MostCommonFrom(counter, i + 1, counter[i].key, counter[i].count)
    ELSE MostCommonFrom(counter, i + 1, bestKey, bestCount)

mostCommonCounterKey(counter) == MostCommonFrom(counter, 1, <<>>, -1)

----------------------------------------------------------------------------
(* buildReport: the pass over the records *)

EmptyAcc ==
  [songMap |-> <<>>, artistMap |-> <<>>, monthlySongMap |-> <<>>,
   monthlyMs |-> <<>>, yearlyMs |-> <<>>,
   ignoredNonSong |-> 0, ignoredBadTimestamp |-> 0, songRecordsUsed |-> 0]

\* the updates of the maps, the artist's totalMs left as it is on a skipped play
Update_SkippedArtistMs(a, song, artist, album, uri, msPlayed, skipped, songKey, monthKey, yearKey) ==
  LET songEntry == IF MapHas(a.songMap, songKey) THEN MapGet(a.songMap, songKey)
                   ELSE [key |-> songKey, song |-> song, artist |-> artist,
                         playCount |-> 0, skipCount |-> 0, totalMs |-> 0,
                         albumCounter |-> <<>>, uriCounter |-> <<>>]
      artistEntry == IF MapHas(a.artistMap, artist) THEN MapGet(a.artistMap, artist)
                     ELSE [key |-> artist, artist |-> artist,
                           playCount |-> 0, skipCount |-> 0, totalMs |-> 0]
      monthSongs == IF MapHas(a.monthlySongMap, monthKey)
                    THEN MapGet(a.monthlySongMap, monthKey).songs ELSE <<>>
      monthSongEntry == IF MapHas(monthSongs, songKey) THEN MapGet(monthSongs, songKey)
                        ELSE [key |-> songKey, playCount |-> 0, totalMs |-> 0]
      monthMs == IF MapHas(a.monthlyMs, monthKey) THEN MapGet(a.monthlyMs, monthKey).totalMs ELSE 0
      yearMs == IF MapHas(a.yearlyMs, yearKey) THEN MapGet(a.yearlyMs, yearKey).totalMs ELSE 0
  IN [a EXCEPT
       !.songMap = MapSet(@, [songEntry EXCEPT
                     !.playCount = @ + 1,
                     !.skipCount = @ + (IF skipped THEN 1 ELSE 0),
                     !.totalMs = @ + msPlayed,
                     !.albumCounter = incrementCounter(@, album),
                     !.uriCounter = incrementCounter(@, uri)]),
       !.artistMap = MapSet(@, [artistEntry EXCEPT
                     !.playCount = @ + 1,
                     !.skipCount = @ + (IF skipped THEN 1 ELSE 0),
                     !.totalMs = @ + (IF skipped THEN 0 ELSE msPlayed)]),
       !.monthlySongMap = MapSet(@, [key |-> monthKey,
                     songs |-> MapSet(monthSongs, [monthSongEntry EXCEPT
                                  !.playCount = @ + 1,
                                  !.totalMs = @ + msPlayed])]),
       !.monthlyMs = MapSet(@, [key |-> monthKey, totalMs |-> monthMs + msPlayed]),
       !.yearlyMs = MapSet(@, [key |-> yearKey, totalMs |-> yearMs + msPlayed]),
       !.songRecordsUsed = @ + 1]

\* lines 384-421: the updates of the maps and of songRecordsUsed
Update(a, song, artist, album, uri, msPlayed, skipped, songKey, monthKey, yearKey) ==
  LET songEntry == IF MapHas(a.songMap, songKey) THEN MapGet(a.songMap, songKey)
                   ELSE [key |-> songKey, song |-> song, artist |-> artist,
                         playCount |-> 0, skipCount |-> 0, totalMs |-> 0,
                         albumCounter |-> <<>>, uriCounter |-> <<>>]
      artistEntry == IF MapHas(a.artistMap, artist) THEN MapGet(a.artistMap, artist)
                     ELSE [key |-> artist, artist |-> artist,
                           playCount |-> 0, skipCount |-> 0, totalMs |-> 0]
      monthSongs == IF MapHas(a.monthlySongMap, monthKey)
                    THEN MapGet(a.monthlySongMap, monthKey).songs ELSE <<>>
      monthSongEntry == IF MapHas(monthSongs, songKey) THEN MapGet(monthSongs, songKey)
                        ELSE [key |-> songKey, playCount |-> 0, totalMs |-> 0]
      monthMs == IF MapHas(a.monthlyMs, monthKey) THEN MapGet(a.monthlyMs, monthKey).totalMs ELSE 0
      yearMs == IF MapHas(a.yearlyMs, yearKey) THEN MapGet(a.yearlyMs, yearKey).totalMs ELSE 0
  IN [a EXCEPT
       !.songMap = MapSet(@, [songEntry EXCEPT
                     !.playCount = @ + 1,
                     !.skipCount = @ + (IF skipped THEN 1 ELSE 0),
                     !.totalMs = @ + msPlayed,
                     !.albumCounter = incrementCounter(@, album),
                     !.uriCounter = incrementCounter(@, uri)]),
       !.artistMap = MapSet(@, [artistEntry EXCEPT
                     !.playCount = @ + 1,
                     !.skipCount = @ + (IF skipped THEN 1 ELSE 0),
                     !.totalMs = @ + msPlayed]),
       !.monthlySongMap = MapSet(@, [key |-> monthKey,
                     songs |-> MapSet(monthSongs, [monthSongEntry EXCEPT
                                  !.playCount = @ + 1,
                                  !.totalMs = @ + msPlayed])]),
       !.monthlyMs = MapSet(@, [key |-> monthKey, totalMs |-> monthMs + msPlayed]),
       !.yearlyMs = MapSet(@, [key |-> yearKey, totalMs |-> yearMs + msPlayed]),
       !.songRecordsUsed = @ + 1]

\* lines 374-421: what an accepted record does
Accumulate(a, record, timestamp) ==
  The({ The({ Update(a, song, artist, album, uri, msPlayed, skipped, songKey, monthKey, yearKey)
              : songKey \in {makeSongKey(song, artist)},
                monthKey \in {timestampToMonthKey(timestamp)},
                yearKey \in {timestamp.year} })
        : song \in {cleanString(record.master_metadata_track_name)},
          artist \in {cleanString(record.master_metadata_album_artist_name)},
          album \in {cleanString(record.master_metadata_album_album_name)},
          uri \in {cleanString(record.spotify_track_uri)},
          msPlayed \in {sanitizeMs(record.ms_played)},
          skipped \in {Truthy(record.skipped)} })

\* the loop body without the continue of line 365
LoopBody_NoContinue(a, record) ==
  The({ The({ IF timestamp = NoDate THEN [b EXCEPT !.ignoredBadTimestamp = @ + 1]
              ELSE IF isSongRecord(record) THEN Accumulate(b, record, timestamp)
              ELSE b
              : timestamp \in {parseTimestamp(record.ts)} })
        : b \in {IF ~isSongRecord(record) THEN [a EXCEPT !.ignoredNonSong = @ + 1] ELSE a} })

\* the loop body entering a year 0 for a record with a bad timestamp
LoopBody_BadTimestampYear(a, record) ==
  IF ~isSongRecord(record) THEN [a EXCEPT !.ignoredNonSong = @ + 1]
  ELSE The({ IF timestamp = NoDate
             THEN [a EXCEPT !.ignoredBadTimestamp = @ + 1,
                            !.yearlyMs = MapSet(@, [key |-> 0, totalMs |-> 0])]
             ELSE Accumulate(a, record, timestamp)
             : timestamp \in {parseTimestamp(record.ts)} })

\* lines 362-422: one iteration of the loop
LoopBody(a, record) ==
  IF ~isSongRecord(record) THEN [a EXCEPT !.ignoredNonSong = @ + 1]
  ELSE The({ IF timestamp = NoDate THEN [a EXCEPT !.ignoredBadTimestamp = @ + 1]
             ELSE Accumulate(a, record, timestamp)
             : timestamp \in {parseTimestamp(record.ts)} })

RECURSIVE LoopFrom(_, _, _)
LoopFrom(a, recs, i) ==
  IF i > Len(recs) THEN a
  ELSE The({LoopFrom(b, recs, i + 1) : b \in {LoopBody(a, recs[i])}})

----------------------------------------------------------------------------
(* Comparators *)

compareSongsByPlayCount(a, b) ==
  OrElse(b.playCount - a.playCount,
  OrElse(b.totalMs - a.totalMs,
  OrElse(b.skipCount - a.skipCount,
  OrElse(localeCompare(a.artist, b.artist),
         localeCompare(a.song, b.song)))))

\* compareSongsByListenTime without the tie-break on playCount
compareSongsByListenTime_NoPlayCount(a, b) ==
  OrElse(b.totalMs - a.totalMs,
  OrElse(localeCompare(a.artist, b.artist),
         localeCompare(a.song, b.song)))

compareSongsByListenTime(a, b) ==
  OrElse(b.totalMs - a.totalMs,
  OrElse(b.playCount - a.playCount,
  OrElse(localeCompare(a.artist, b.artist),
         localeCompare(a.song, b.song))))

compareSongsBySkipCount(a, b) ==
  OrElse(b.skipCount - a.skipCount,
  OrElse(b.playCount - a.playCount,
  OrElse(localeCompare(a.artist, b.artist),
         localeCompare(a.song, b.song))))

\* a and b are entries of a month's song map: the key and the month's statistics
compareMonthlySongRank(a, b) ==
  LET splitA == splitSongKey(a.key)
      splitB == splitSongKey(b.key)
  IN OrElse(b.playCount - a.playCount,
     OrElse(b.totalMs - a.totalMs,
     OrElse(localeCompare(splitA[2], splitB[2]),
            localeCompare(splitA[1], splitB[1]))))

\* compareArtistsByTime without the tie-break on playCount
compareArtistsByTime_NoPlayCount(a, b) ==
  OrElse(b.totalMs - a.totalMs,
         localeCompare(a.artist, b.artist))

compareArtistsByTime(a, b) ==
  OrElse(b.totalMs - a.totalMs,
  OrElse(b.playCount - a.playCount,
         localeCompare(a.artist, b.artist)))

\* the arrow functions of lines 452, 478 and 488
compareKeys(a, b) == localeCompare(a.key, b.key)

compareYears(a, b) == a.key - b.key

Compare(by, a, b) ==
  CASE by = "playCount" -> compareSongsByPlayCount(a, b)
    [] by = "listenTime" -> compareSongsByListenTime(a, b)
    [] by = "skipCount" -> compareSongsBySkipCount(a, b)
    [] by = "monthlyRank" -> compareMonthlySongRank(a, b)
    [] by = "artistTime" -> compareArtistsByTime(a, b)
    [] by = "key" -> compareKeys(a, b)
    [] by = "year" -> compareYears(a, b)

\* Array.prototype.sort(compare): a stable sort.
RECURSIVE InsertSorted(_, _, _)
InsertSorted(sorted, x, by) ==
  IF sorted = <<>> THEN <<x>>
  ELSE IF Compare(by, Head(sorted), x) > 0 THEN <<x>> \o sorted
  ELSE <<Head(sorted)>> \o InsertSorted(Tail(sorted), x, by)

RECURSIVE SortBy(_, _)
SortBy(s, by) ==
  IF s = <<>> THEN <<>>
  ELSE InsertSorted(SortBy(SubSeq(s, 1, Len(s) - 1), by), s[Len(s)], by)

----------------------------------------------------------------------------
(* buildReport: the derivation of the report from the maps *)

TopN == 10

TopPerMonth == 3

MONTH_NAMES == <<"Jan", "Feb", "Mar", "Apr", "May", "Jun",
                 "Jul", "Aug", "Sep", "Oct", "Nov", "Dec">>

\* For a key "<digits>-<digits>" with a month in 1..12, the month name, a
\* space and the year; any other key is returned as it is.
formatMonthLabel(monthKey) ==
  LET dashes == {i \in 1..Len(monthKey) : monthKey[i] = "-"}
      d == CHOOSE i \in dashes : TRUE
      y == SubSeq(monthKey, 1, d - 1)
      m == SubSeq(monthKey, d + 1, Len(monthKey))
  IN IF Cardinality(dashes) = 1 /\ IsDigits(y) /\ IsDigits(m)
        /\ DigitsValue(m) >= 1 /\ DigitsValue(m) <= 12
     THEN <<MONTH_NAMES[DigitsValue(m)], "SP">> \o ToDigits(DigitsValue(y))
     ELSE monthKey

\* lines 424-440 (the minute and hour quotients of totalMs are left out)
SongRow(entry) ==
  [song |-> entry.song, artist |-> entry.artist,
   album |-> mostCommonCounterKey(entry.albumCounter),
   uri |-> mostCommonCounterKey(entry.uriCounter),
   playCount |-> entry.playCount, skipCount |-> entry.skipCount,
   skipRate |-> IF entry.playCount # 0 THEN <<entry.skipCount, entry.playCount>> ELSE <<0, 1>>,
   totalMs |-> entry.totalMs]

\* the filter of line 447 letting every row through
HasSkips_Any(row) == row.skipCount >= 0

HasSkips(row) == row.skipCount > 0

\* lines 459-474: the rows of one month
MonthTopRows(monthEntry) ==
  The({ [index \in 1..Len(ranked) |->
           [month |-> monthEntry.key, monthLabel |-> formatMonthLabel(monthEntry.key),
            rank |-> index,
            song |-> splitSongKey(ranked[index].key)[1],
            artist |-> splitSongKey(ranked[index].key)[2],
            playCount |-> ranked[index].playCount, totalMs |-> ranked[index].totalMs]]
        : ranked \in {Slice0(SortBy(monthEntry.songs, "monthlyRank"), TopPerMonth)} })

RECURSIVE Flatten(_)
Flatten(ss) == IF ss = <<>> THEN <<>> ELSE Head(ss) \o Flatten(Tail(ss))

\* UTF-16 code unit of a character: the order of the < and > of strings
CodeUnit(c) ==
  CASE c = "US" -> 31
    [] c = "SP" -> 32
    [] c = "-" -> 45
    [] c = "." -> 46
    [] c \in DOMAIN Digit -> 48 + Digit[c]
    [] c = "A" -> 65
    [] \E i \in 1..Len(Alphabet) : Alphabet[i] = c ->
         96 + (CHOOSE i \in 1..Len(Alphabet) : Alphabet[i] = c)
    [] c = "E_ACUTE" -> 233
    [] c = "ACUTE" -> 769
    [] OTHER -> 120

CodeUnits(s) == [i \in 1..Len(s) |-> CodeUnit(s[i])]

NoPeak == [key |-> <<>>, totalMs |-> -1]

RECURSIVE PeakFrom(_, _, _)
\* the loop of pickPeak without the comparison of the tie-breakers
PeakFrom_NoTieBreak(rows, index, best) ==
  IF index > Len(rows) THEN best
  ELSE IF rows[index].totalMs > best.totalMs
    THEN PeakFrom(rows, index + 1, rows[index])
    ELSE PeakFrom(rows, index + 1, best)

\* the loop of pickPeak over rows [key, tie, totalMs], tie being the string
\* tieBreakerAccessor gives
PeakFrom(rows, index, best) ==
  IF index > Len(rows) THEN best
  ELSE LET current == rows[index]
       IN IF current.totalMs > best.totalMs
             \/ (current.totalMs = best.totalMs
                 /\ SeqCmp(CodeUnits(current.tie), CodeUnits(best.tie)) > 0)
          THEN PeakFrom(rows, index + 1, current)
          ELSE PeakFrom(rows, index + 1, best)

pickPeak(rows) ==
  IF rows = <<>> THEN NoPeak
  ELSE LET best == PeakFrom(rows, 2, rows[1])
       IN [key |-> best.key, totalMs |-> best.totalMs]

NoReport == [songRecordsUsed |-> -1]

\* lines 477-485
MonthlyMinutesRows(a) ==
  The({ [i \in 1..Len(sorted) |->
           [month |-> sorted[i].key, monthLabel |-> formatMonthLabel(sorted[i].key),
            totalMs |-> sorted[i].totalMs]]
        : sorted \in {SortBy(a.monthlyMs, "key")} })

\* lines 487-494
YearlyMinutesRows(a) ==
  The({ [i \in 1..Len(sorted) |-> [year |-> sorted[i].key, totalMs |-> sorted[i].totalMs]]
        : sorted \in {SortBy(a.yearlyMs, "year")} })

\* lines 499-506
ArtistRows(a) ==
  [i \in 1..Len(a.artistMap) |->
     [artist |-> a.artistMap[i].artist, playCount |-> a.artistMap[i].playCount,
      skipCount |-> a.artistMap[i].skipCount, totalMs |-> a.artistMap[i].totalMs]]

\* lines 510-538, from the sorted tables
Compose(recs, a, songRows, sortedMonths, monthlyMinutesRows, yearlyMinutesRows) ==
  [totalRecordsRead |-> Len(recs),
   songRecordsUsed |-> a.songRecordsUsed,
   ignoredNonSong |-> a.ignoredNonSong,
   ignoredBadTimestamp |-> a.ignoredBadTimestamp,
   uniqueSongs |-> Len(songRows),
   totalSongMs |-> SumOver([i \in 1..Len(songRows) |-> songRows[i].totalMs], 1..Len(songRows)),
   peakMonth |-> pickPeak([i \in 1..Len(monthlyMinutesRows) |->
                  [key |-> monthlyMinutesRows[i].month, tie |-> monthlyMinutesRows[i].month,
                   totalMs |-> monthlyMinutesRows[i].totalMs]]),
   peakYear |-> pickPeak([i \in 1..Len(yearlyMinutesRows) |->
                  [key |-> yearlyMinutesRows[i].year, tie |-> ToDigits(yearlyMinutesRows[i].year),
                   totalMs |-> yearlyMinutesRows[i].totalMs]]),
   dataRange |-> IF monthlyMinutesRows # <<>>
                 THEN <<monthlyMinutesRows[1].monthLabel,
                        monthlyMinutesRows[Len(monthlyMinutesRows)].monthLabel>>
                 ELSE <<>>,
   songRows |-> songRows,
   top10ByPlayCount |-> Slice0(SortBy(songRows, "playCount"), TopN),
   top10ByTime |-> Slice0(SortBy(songRows, "listenTime"), TopN),
   top10Skipped |-> Slice0(SortBy(FilterSeq(songRows, HasSkips), "skipCount"), TopN),
   top3PerMonthRows |-> Flatten([i \in 1..Len(sortedMonths) |-> MonthTopRows(sortedMonths[i])]),
   monthlyMinutesRows |-> monthlyMinutesRows,
   yearlyMinutesRows |-> yearlyMinutesRows,
   topArtistsByMinutes |-> Slice0(SortBy(ArtistRows(a), "artistTime"), TopN)]

\* lines 424-538
Assemble(recs, a) ==
  The({ Compose(recs, a, songRows, sortedMonths, monthlyMinutesRows, yearlyMinutesRows)
        : songRows \in {SortBy([i \in 1..Len(a.songMap) |-> SongRow(a.songMap[i])], "playCount")},
          sortedMonths \in {SortBy(a.monthlySongMap, "key")},
          monthlyMinutesRows \in {MonthlyMinutesRows(a)},
          yearlyMinutesRows \in {YearlyMinutesRows(a)} })

buildReport(recs) == The({Assemble(recs, a) : a \in {LoopFrom(EmptyAcc, recs, 1)}})

----------------------------------------------------------------------------
(* The records of the model *)

Ms(n) == Num(10 * n)

IsoMay == Str(<<"2023-05-15", "T", "10:00:00", "Z">>)
IsoJune == Str(<<"2023-06-15", "T", "10:00:00", "Z">>)
IsoJan == Str(<<"2024-01-15", "T", "10:00:00", "Z">>)
NaiveMay == Str(<<"2023-05-15", "SP", "10:00:00">>)

Play(track, artist) ==
  [master_metadata_track_name |-> Str(track),
   master_metadata_album_artist_name |-> Str(artist),
   master_metadata_album_album_name |-> Str(<<"f">>),
   spotify_track_uri |-> Null,
   episode_name |-> Null,
   spotify_episode_uri |-> Null,
   ts |-> IsoMay,
   ms_played |-> Ms(1000),
   skipped |-> Bool(FALSE)]

SongX == Play(<<"a">>, <<"c">>)
SongB == Play(<<"b">>, <<"c">>)

SongRecords ==
  { SongX,
    Play(<<"SP", "a", "SP">>, <<"c">>),
    SongB,
    Play(<<"a">>, <<"d">>),
    Play(<<"A">>, <<"c">>),
    Play(<<"a", "US", "b">>, <<"c">>),
    Play(<<"a">>, <<"b", "US", "c">>),
    Play(<<"E_ACUTE">>, <<"c">>),
    Play(<<"e", "ACUTE">>, <<"c">>),
    [SongX EXCEPT !.ms_played = Ms(2000)],
    [SongX EXCEPT !.ms_played = Ms(3000), !.skipped = Bool(TRUE)],
    [SongX EXCEPT !.skipped = Str(<<"n", "o">>)],
    [SongX EXCEPT !.ts = IsoJune],
    [SongX EXCEPT !.ts = IsoJan],
    [SongX EXCEPT !.ts = NaiveMay],
    [SongX EXCEPT !.ms_played = Ms(-500)],
    [SongX EXCEPT !.ms_played = Str(<<"1", "2", "0", ".", "9">>)],
    [SongX EXCEPT !.ms_played = Undefined],
    [SongX EXCEPT !.master_metadata_album_album_name = Str(<<"g">>)],
    [SongX EXCEPT !.master_metadata_album_album_name = Null],
    [SongX EXCEPT !.spotify_track_uri = Str(<<"h">>)],
    [Play(<<"a", "US", "b">>, <<"c">>) EXCEPT !.master_metadata_album_album_name = Null],
    [SongB EXCEPT !.ms_played = Ms(2000), !.ts = IsoJune],
    [SongB EXCEPT !.skipped = Bool(TRUE)],
    [SongX EXCEPT !.episode_name = Str(<<"SP">>)],
    [SongX EXCEPT !.spotify_episode_uri = Num(70)] }

BadTimestampRecords ==
  { [SongX EXCEPT !.ts = Str(<<"x">>)],
    [SongX EXCEPT !.ts = Str(<<"SP">>)],
    [SongX EXCEPT !.ts = Null],
    [SongX EXCEPT !.ts = Undefined],
    [SongX EXCEPT !.ts = Num(10)] }

NonSongRecords ==
  { [SongX EXCEPT !.master_metadata_track_name = Null],
    [SongX EXCEPT !.master_metadata_track_name = Str(<<"SP">>)],
    [SongX EXCEPT !.master_metadata_album_artist_name = Num(50)],
    [SongX EXCEPT !.master_metadata_album_artist_name = Str(<<>>)],
    [SongX EXCEPT !.episode_name = Str(<<"h">>)],
    [SongX EXCEPT !.spotify_episode_uri = Str(<<"h">>)],
    [SongX EXCEPT !.master_metadata_track_name = Null,
                  !.master_metadata_album_artist_name = Null,
                  !.episode_name = Str(<<"h">>), !.spotify_episode_uri = Str(<<"h">>)],
    [SongX EXCEPT !.master_metadata_track_name = Null, !.ts = Str(<<"x">>)] }

Records == SongRecords \cup BadTimestampRecords \cup NonSongRecords

\* the number of records of an input without preset records
MaxRecords == 2

\* the number of records that follow the preset records of an input
MaxExtra == 1

\* the number of distinct songs of a library
LibrarySize == 12

\* the i-th song of a library: tracks a..d by artists e..h
LibrarySong(i) ==
  Play(<<Alphabet[((i - 1) % 4) + 1]>>, <<Alphabet[5 + (((i - 1) \div 4) % 4)]>>)

\* every song played once in May and skipped, listening times 1000, 2000, 3000, ...
LibrarySkipped ==
  [i \in 1..LibrarySize |->
     [LibrarySong(i) EXCEPT !.ms_played = Ms(1000 * (1 + (i % 3))), !.skipped = Bool(TRUE)]]

\* every song played once, for 1000 or 2000 ms, in May or June, every third
\* play skipped, the last song first; then songs 1 and 2 once more
LibraryMixed ==
  [i \in 1..(LibrarySize + 2) |->
     IF i <= LibrarySize
     THEN [LibrarySong(LibrarySize + 1 - i) EXCEPT
             !.ms_played = Ms(1000 * (1 + (i % 2))),
             !.skipped = Bool(i % 3 = 0),
             !.ts = IF i % 4 = 0 THEN IsoJune ELSE IsoMay]
     ELSE [LibrarySong(i - LibrarySize) EXCEPT !.ms_played = Ms(1000)]]

\* song X played for 1000, 2000 and 3000 ms, once skipped; songs B and X played
\* twice each in June, B for longer; a zone-less timestamp; a podcast episode;
\* an unreadable timestamp
Scenarios ==
  << SongX,
     [SongX EXCEPT !.ms_played = Ms(2000)],
     [SongX EXCEPT !.ms_played = Ms(3000), !.skipped = Bool(TRUE)],
     [SongX EXCEPT !.ts = IsoJune],
     [SongB EXCEPT !.ts = IsoJune, !.ms_played = Ms(2000)],
     [SongX EXCEPT !.ts = IsoJune],
     [SongB EXCEPT !.ts = IsoJune, !.ms_played = Ms(2000)],
     [SongB EXCEPT !.ts = NaiveMay],
     [SongX EXCEPT !.master_metadata_track_name = Null,
                   !.master_metadata_album_artist_name = Null,
                   !.episode_name = Str(<<"h">>), !.spotify_episode_uri = Str(<<"h">>)],
     [SongX EXCEPT !.ts = Str(<<"x">>)] >>

\* the name of the i-th artist of a library of artists: one letter, then two
ArtistName(i) ==
  IF i <= Len(Alphabet) THEN <<Alphabet[i]>>
  ELSE <<Alphabet[((i - 1) % Len(Alphabet)) + 1], Alphabet[(i - 1) \div Len(Alphabet)]>>

\* song a of every artist played once in May for 1000, 2000 or 3000 ms; then
\* song b of the first artist, and song b of the second artist, skipped
LibraryArtists ==
  [i \in 1..(LibrarySize + 2) |->
     IF i <= LibrarySize
     THEN [Play(<<"a">>, ArtistName(i)) EXCEPT !.ms_played = Ms(1000 * (1 + (i % 3)))]
     ELSE [Play(<<"b">>, ArtistName(i - LibrarySize)) EXCEPT
             !.skipped = Bool(i = LibrarySize + 2)]]

\* the ms_played values of the plays of song X in Durations: 2.5, 2.4, -0.4,
\* NaN, Infinity, null, true, "x", " ", "-5", "120.9", undefined, -500, 1000
DurationValues ==
  << Num(25), Num(24), Num(-4), NaN, Infinity, Null, Bool(TRUE), Str(<<"x">>),
     Str(<<"SP">>), Str(<<"-", "5">>), Str(<<"1", "2", "0", ".", "9">>), Undefined,
     Ms(-500), Ms(1000) >>

Durations == [i \in 1..Len(DurationValues) |-> [SongX EXCEPT !.ms_played = DurationValues[i]]]

Presets == {<<>>, LibrarySkipped, LibraryMixed, LibraryArtists, Durations, Scenarios}

----------------------------------------------------------------------------
(* Spec: the pass of buildReport *)

AllLibs == {"JSZip", "XLSX", "jsPDF", "Chart", "autoTable"}

\* The locals of a run.  files is the array parseUploadedFiles was given:
\* while alias is TRUE it is the very array state.files refers to, and own is
\* unused; once state.files has been given a new array, own holds its elements.

NoRun ==
  [pc |-> "idle", alias |-> FALSE, own |-> <<>>, index |-> 0, records |-> <<>>,
   parsedJsonCount |-> 0, zipCount |-> 0, jsonCount |-> 0, skippedCount |-> 0]

UiIdle ==
  /\ stateFiles = <<>>
  /\ processing = FALSE
  /\ mode = "excel"
  /\ libs = AllLibs
  /\ run = NoRun
  /\ statusLog = <<>>
  /\ exported = <<>>

Init ==
  /\ records = <<>>
  /\ preset \in Presets
  /\ acc = EmptyAcc
  /\ report = NoReport
  /\ pc = "loop"
  /\ UiIdle

\* one iteration of the loop of lines 362-422, on a preset record
LoopPreset ==
  /\ pc = "loop"
  /\ Len(records) < Len(preset)
  /\ records' = Append(records, preset[Len(records) + 1])
  /\ acc' = LoopBody(acc, preset[Len(records) + 1])
  /\ UNCHANGED <<preset, report, pc>>
  /\ UNCHANGED uiVars

\* one iteration of the loop of lines 362-422, on any record
LoopRecord(record) ==
  /\ pc = "loop"
  /\ Len(records) >= Len(preset)
  /\ Len(records) < Len(preset) + (IF preset = <<>> THEN MaxRecords ELSE MaxExtra)
  /\ records' = Append(records, record)
  /\ acc' = LoopBody(acc, record)
  /\ UNCHANGED <<preset, report, pc>>
  /\ UNCHANGED uiVars

\* lines 424-538: the input is exhausted, the report is derived and returned
Finish ==
  /\ pc = "loop"
  /\ Len(records) >= Len(preset)
  /\ report' = Assemble(records, acc)
  /\ pc' = "done"
  /\ UNCHANGED <<records, preset, acc>>
  /\ UNCHANGED uiVars

Next ==
  \/ LoopPreset
  \/ \E record \in Records : LoopRecord(record)
  \/ Finish

Spec == Init /\ [][Next]_vars

----------------------------------------------------------------------------
(* SpecRun: the page.  Files, the file list handlers, handleProcess *)

File(name, ext) == [name |-> name, ext |-> ext, size |-> 1, lastModified |-> 1]

\* what reading and decoding a file gives: the records of a JSON array, or
\* "invalid" (JSON.parse or the array test fails), "noEntries" (an archive
\* without JSON entries), "corrupt" (JSZip.loadAsync rejects)
FileContent(file) ==
  CASE file.name = "songs" -> [kind |-> "array", records |-> <<SongX, [SongB EXCEPT !.ts = IsoJune]>>]
    [] file.name = "podcasts" ->
         [kind |-> "array",
          records |-> <<[SongX EXCEPT !.episode_name = Str(<<"h">>)],
                        [SongX EXCEPT !.master_metadata_track_name = Null]>>]
    [] file.name = "badts" -> [kind |-> "array", records |-> <<[SongX EXCEPT !.ts = Str(<<"x">>)]>>]
    [] file.name = "empty" -> [kind |-> "array", records |-> <<>>]
    [] file.name = "broken" -> [kind |-> "invalid", records |-> <<>>]
    [] file.name = "export" -> [kind |-> "array", records |-> <<SongX>>]
    [] file.name = "photos" -> [kind |-> "noEntries", records |-> <<>>]
    [] file.name = "corrupt" -> [kind |-> "corrupt", records |-> <<>>]
    [] OTHER -> [kind |-> "invalid", records |-> <<>>]

Files ==
  { File("songs", "json"), File("podcasts", "json"), File("badts", "json"),
    File("empty", "json"), File("broken", "json"), File("export", "zip"),
    File("photos", "zip"), File("corrupt", "zip"), File("notes", "txt") }

Incoming == {<<f>> : f \in Files} \cup {<<File("songs", "json"), File("songs", "json")>>, <<>>}

LibSets == {AllLibs, AllLibs \ {"JSZip"}, AllLibs \ {"XLSX"}, AllLibs \ {"Chart"}}

\* bounds on state.files and on the status entries written outside a run
MaxFiles == 2

MaxStatus == 2

\* bound on the number of reports handed to the export collaborators
MaxExports == 1

isSupportedInputFile(file) == file.ext \in {"zip", "json"}

fileUniqueKey(file) == <<file.name, file.ext, file.size, file.lastModified>>

Status(message, level) == [message |-> message, level |-> level]

RECURSIVE AddLoop(_, _, _, _)
\* the loop of addFiles: <<files, added, skipped>>
AddLoop(files, incoming, added, skipped) ==
  IF incoming = <<>> THEN <<files, added, skipped>>
  ELSE LET file == Head(incoming)
       IN IF ~isSupportedInputFile(file)
            THEN AddLoop(files, Tail(incoming), added, skipped + 1)
          ELSE IF \E i \in 1..Len(files) : fileUniqueKey(files[i]) = fileUniqueKey(file)
            THEN AddLoop(files, Tail(incoming), added, skipped + 1)
          ELSE AddLoop(Append(files, file), Tail(incoming), added + 1, skipped)

\* the array the in-flight parseUploadedFiles iterates
RunFiles == IF run.alias THEN stateFiles ELSE run.own

InitRun ==
  /\ records = <<>>
  /\ preset = <<>>
  /\ acc = EmptyAcc
  /\ report = NoReport
  /\ pc = "page"
  /\ stateFiles = <<>>
  /\ processing = FALSE
  /\ mode = "excel"
  /\ libs \in LibSets
  /\ run = NoRun
  /\ statusLog = <<>>
  /\ exported = <<>>

addFiles(incomingFiles) ==
  /\ Len(statusLog) < MaxStatus \/ incomingFiles = <<>>
  /\ \E res \in {AddLoop(stateFiles, incomingFiles, 0, 0)} :
     LET log1 == IF res[2] > 0 THEN Append(statusLog, Status("added", "ok")) ELSE statusLog
         log2 == IF res[3] > 0 THEN Append(log1, Status("skipped", "warn")) ELSE log1
     IN /\ Len(res[1]) <= MaxFiles
        /\ stateFiles' = res[1]
        /\ statusLog' = IF incomingFiles = <<>> THEN statusLog ELSE log2
  /\ UNCHANGED <<processing, mode, libs, run, exported>>
  /\ UNCHANGED <<records, preset, acc, report, pc>>

clearFiles ==
  /\ Len(statusLog) < MaxStatus
  /\ stateFiles' = <<>>
  /\ run' = IF run.alias THEN [run EXCEPT !.alias = FALSE, !.own = stateFiles] ELSE run
  /\ statusLog' = Append(statusLog, Status("cleared", "info"))
  /\ UNCHANGED <<processing, mode, libs, exported>>
  /\ UNCHANGED <<records, preset, acc, report, pc>>

\* the change listener of the outputMode radios
changeMode(m) ==
  /\ m # mode
  /\ mode' = m
  /\ UNCHANGED <<stateFiles, processing, libs, run, statusLog, exported>>
  /\ UNCHANGED <<records, preset, acc, report, pc>>

\* the message of the error validateLibraries throws, or "" when it returns
validateLibraries(m) ==
  IF "JSZip" \notin libs THEN "JSZip failed to load."
  ELSE IF m = "excel" /\ "XLSX" \notin libs THEN "XLSX library failed to load."
  ELSE IF m = "pdf" /\ "jsPDF" \notin libs THEN "jsPDF failed to load."
  ELSE IF m = "pdf" /\ "Chart" \notin libs THEN "Chart.js failed to load."
  ELSE IF m = "pdf" /\ "autoTable" \notin libs THEN "jsPDF AutoTable plugin failed to load."
  ELSE ""

NoRecordsMessage == "No valid JSON streaming records were found in the selected files."

NoSongsMessage == "No song records were found after filtering out non-song entries."

RECURSIVE NextFile(_, _, _)
\* parseUploadedFiles from the head of its loop to its next await or its
\* return: <<run, statusLog>>
NextFile(r, files, log) ==
  IF r.index > Len(files)
    THEN LET log1 == IF r.zipCount > 0 THEN Append(log, Status("ZIP files processed", "info")) ELSE log
             log2 == IF r.jsonCount > 0 THEN Append(log1, Status("Direct JSON files processed", "info")) ELSE log1
             log3 == IF r.skippedCount > 0 THEN Append(log2, Status("Skipped entries/files", "warn")) ELSE log2
         IN <<[r EXCEPT !.pc = "parsed"], log3>>
  ELSE IF files[r.index].ext = "zip"
    THEN <<[r EXCEPT !.pc = "zipLoad", !.zipCount = @ + 1], Append(log, Status("Scanning ZIP", "info"))>>
  ELSE IF files[r.index].ext = "json"
    THEN <<[r EXCEPT !.pc = "jsonText", !.jsonCount = @ + 1], log>>
  ELSE NextFile([r EXCEPT !.index = @ + 1, !.skippedCount = @ + 1], files,
                Append(log, Status("Unsupported file skipped", "warn")))

\* the catch of lines 226-228 without the finally of lines 229-231
Failed_NoFinally(log, message) ==
  /\ statusLog' = Append(log, Status(message, "error"))
  /\ processing' = processing
  /\ run' = NoRun

\* lines 229-231 after lines 226-228: the run ends with an error entry
Failed(log, message) ==
  /\ statusLog' = Append(log, Status(message, "error"))
  /\ processing' = FALSE
  /\ run' = NoRun

\* lines 204-232 without the test of line 214
AfterParse_NoSongTest(r, log) ==
  IF r.records = <<>>
    THEN Failed(log, NoRecordsMessage) /\ UNCHANGED <<report, exported>>
  ELSE \E log1 \in {Append(log, Status("Loaded", "ok"))}, rep \in {buildReport(r.records)} :
          /\ report' = rep
          /\ IF mode = "excel"
               THEN IF "XLSX" \in libs
                      THEN /\ exported' = Append(exported, "excel")
                           /\ statusLog' = Append(log1, Status("Excel report generated", "ok"))
                           /\ processing' = FALSE
                           /\ run' = NoRun
                      ELSE Failed(log1, "XLSX is not defined") /\ UNCHANGED exported
             ELSE /\ exported' = Append(exported, "pdf")
                  /\ statusLog' = log1
                  /\ processing' = processing
                  /\ run' = [r EXCEPT !.pc = "pdf"]

\* lines 204-232, entered when parseUploadedFiles has returned into r
AfterParse(r, log) ==
  IF r.records = <<>>
    THEN Failed(log, NoRecordsMessage) /\ UNCHANGED <<report, exported>>
  ELSE \E log1 \in {Append(log, Status("Loaded", "ok"))}, rep \in {buildReport(r.records)} :
          /\ report' = rep
          /\ IF rep.songRecordsUsed = 0
               THEN Failed(log1, NoSongsMessage) /\ UNCHANGED exported
             ELSE IF mode = "excel"
               THEN IF "XLSX" \in libs
                      THEN /\ exported' = Append(exported, "excel")
                           /\ statusLog' = Append(log1, Status("Excel report generated", "ok"))
                           /\ processing' = FALSE
                           /\ run' = NoRun
                      ELSE Failed(log1, "XLSX is not defined") /\ UNCHANGED exported
             ELSE /\ exported' = Append(exported, "pdf")
                  /\ statusLog' = log1
                  /\ processing' = processing
                  /\ run' = [r EXCEPT !.pc = "pdf"]

\* parseUploadedFiles goes on to its next await, or returns and handleProcess
\* goes on to its next await or its end
Continue(r, log) ==
  \E nf \in {NextFile(r, RunFiles, log)} :
     IF nf[1].pc = "parsed" THEN AfterParse(nf[1], nf[2])
     ELSE /\ run' = nf[1]
          /\ statusLog' = nf[2]
          /\ UNCHANGED <<processing, report, exported>>

\* handleProcess without the test of state.processing of line 191
handleProcess_NoProcessingTest ==
  /\ Len(exported) < MaxExports
  /\ IF stateFiles = <<>>
       THEN UNCHANGED <<processing, run, statusLog, report, exported>>
       ELSE LET message == validateLibraries(mode)
            IN IF message # ""
                 THEN /\ statusLog' = <<Status(message, "error")>>
                      /\ processing' = FALSE
                      /\ run' = NoRun
                      /\ report' = NoReport
                      /\ UNCHANGED exported
                 ELSE \E nf \in {NextFile([NoRun EXCEPT !.alias = TRUE, !.index = 1], stateFiles,
                                           <<Status("Reading selected files...", "info")>>)} :
                         /\ processing' = TRUE
                         /\ run' = nf[1]
                         /\ statusLog' = nf[2]
                         /\ report' = NoReport
                         /\ UNCHANGED exported
  /\ UNCHANGED <<stateFiles, mode, libs>>
  /\ UNCHANGED <<records, preset, acc, pc>>

\* a click on the Process button: handleProcess up to its first await
handleProcess ==
  /\ Len(exported) < MaxExports
  /\ IF stateFiles = <<>> \/ processing
       THEN UNCHANGED <<processing, run, statusLog, report, exported>>
       ELSE LET message == validateLibraries(mode)
            IN IF message # ""
                 THEN /\ statusLog' = <<Status(message, "error")>>
                      /\ processing' = FALSE
                      /\ run' = NoRun
                      /\ report' = NoReport
                      /\ UNCHANGED exported
                 ELSE \E nf \in {NextFile([NoRun EXCEPT !.alias = TRUE, !.index = 1], stateFiles,
                                           <<Status("Reading selected files...", "info")>>)} :
                         /\ processing' = TRUE
                         /\ run' = nf[1]
                         /\ statusLog' = nf[2]
                         /\ report' = NoReport
                         /\ UNCHANGED exported
  /\ UNCHANGED <<stateFiles, mode, libs>>
  /\ UNCHANGED <<records, preset, acc, pc>>

\* file.text() of parseJsonBlob resolves: lines 274-280, 333 and 336-348
jsonTextResolves ==
  /\ run.pc = "jsonText"
  /\ \E content \in {FileContent(RunFiles[run.index])} :
        IF content.kind = "array"
          THEN Continue([run EXCEPT !.records = @ \o content.records,
                                    !.parsedJsonCount = @ + 1, !.index = @ + 1], statusLog)
          ELSE Continue([run EXCEPT !.skippedCount = @ + 1, !.index = @ + 1],
                        Append(statusLog, Status("Failed to parse", "warn")))
  /\ UNCHANGED <<stateFiles, mode, libs>>
  /\ UNCHANGED <<records, preset, acc, pc>>

\* JSZip.loadAsync resolves or rejects: lines 301-315
zipLoadResolves ==
  /\ run.pc = "zipLoad"
  /\ \E content \in {FileContent(RunFiles[run.index])} :
        IF content.kind = "corrupt"
          THEN Failed(statusLog, "Corrupted zip") /\ UNCHANGED <<report, exported>>
        ELSE IF content.kind = "noEntries"
          THEN Continue([run EXCEPT !.skippedCount = @ + 1, !.index = @ + 1],
                        Append(statusLog, Status("No JSON files found inside", "warn")))
        ELSE /\ run' = [run EXCEPT !.pc = "zipEntry"]
             /\ UNCHANGED <<statusLog, processing, report, exported>>
  /\ UNCHANGED <<stateFiles, mode, libs>>
  /\ UNCHANGED <<records, preset, acc, pc>>

\* entry.async("string") of the archive's one JSON entry resolves: lines 317-328
zipEntryResolves ==
  /\ run.pc = "zipEntry"
  /\ \E content \in {FileContent(RunFiles[run.index])} :
        Continue([run EXCEPT !.records = @ \o content.records,
                             !.parsedJsonCount = @ + 1, !.index = @ + 1],
                 Append(statusLog, Status("Parsed JSON file(s) from", "info")))
  /\ UNCHANGED <<stateFiles, mode, libs>>
  /\ UNCHANGED <<records, preset, acc, pc>>

\* exportSimplifiedPdf resolves or rejects: lines 223-232
pdfResolves(ok) ==
  /\ run.pc = "pdf"
  /\ IF ok
       THEN /\ statusLog' = Append(statusLog, Status("PDF report generated", "ok"))
            /\ processing' = FALSE
            /\ run' = NoRun
       ELSE Failed(statusLog, "PDF export failed")
  /\ UNCHANGED <<stateFiles, mode, libs, report, exported>>
  /\ UNCHANGED <<records, preset, acc, pc>>

NextRun ==
  \/ \E incomingFiles \in Incoming : addFiles(incomingFiles)
  \/ clearFiles
  \/ \E m \in {"excel", "pdf"} : changeMode(m)
  \/ handleProcess
  \/ jsonTextResolves
  \/ zipLoadResolves
  \/ zipEntryResolves
  \/ \E ok \in BOOLEAN : pdfResolves(ok)

SpecRun == InitRun /\ [][NextRun]_vars

\* the promises a run awaits settle: file.text(), JSZip.loadAsync,
\* entry.async and exportSimplifiedPdf (whose only timer is of 40 ms, line 919)
Settles ==
  \/ jsonTextResolves
  \/ zipLoadResolves
  \/ zipEntryResolves
  \/ \E ok \in BOOLEAN : pdfResolves(ok)

FairRun == SpecRun /\ WF_vars(Settles)

----------------------------------------------------------------------------
(* Properties *)

\* record r passes classification and timestamp normalization
Accepted(r) == isSongRecord(r) /\ parseTimestamp(r.ts) # NoDate

\* the positions of the accepted records of the input read so far
AcceptedIndices == {i \in 1..Len(records) : Accepted(records[i])}

Last(s) == s[Len(s)]

\* C1: in every report, songRecordsUsed + ignoredNonSong + ignoredBadTimestamp
\* equals totalRecordsRead, the number of input records; each record is in
\* exactly one counter: ignoredNonSong counts the records that fail
\* classification (whatever their timestamp), ignoredBadTimestamp the
\* classified songs whose timestamp does not parse, songRecordsUsed the rest.
C1_CountersPartition ==
  pc = "done" =>
    /\ report.totalRecordsRead = Len(records)
    /\ report.songRecordsUsed + report.ignoredNonSong + report.ignoredBadTimestamp
         = report.totalRecordsRead
    /\ report.ignoredNonSong = Cardinality({i \in 1..Len(records) : ~isSongRecord(records[i])})
    /\ report.ignoredBadTimestamp =
         Cardinality({i \in 1..Len(records) :
                        isSongRecord(records[i]) /\ parseTimestamp(records[i].ts) = NoDate})
    /\ report.songRecordsUsed = Cardinality(AcceptedIndices)

\* a report over an input with a non-song whose timestamp is unreadable, a song
\* whose timestamp is unreadable, and accepted songs
C1_Witness ==
  /\ pc = "done"
  /\ report.songRecordsUsed > 0
  /\ report.ignoredBadTimestamp > 0
  /\ \E i \in 1..Len(records) :
       ~isSongRecord(records[i]) /\ parseTimestamp(records[i].ts) = NoDate

\* the run's input: no record of a file of the array being read is accepted
NoUsableRecords ==
  \A i \in 1..Len(RunFiles) :
    \A rec \in Range(FileContent(RunFiles[i]).records) : ~Accepted(rec)

\* the step in which parseUploadedFiles returns
ParseReturns ==
  /\ run.pc \in {"jsonText", "zipLoad", "zipEntry"}
  /\ run'.pc \notin {"jsonText", "zipLoad", "zipEntry"}
  /\ ~(run.pc = "zipLoad" /\ FileContent(RunFiles[run.index]).kind = "corrupt")

Present(value) ==
  value.t = "string" /\ \E i \in 1..Len(value.s) : value.s[i] \notin WhiteSpace

\* the rule of the record classifier
Qualifies(r) ==
  /\ Present(r.master_metadata_track_name)
  /\ Present(r.master_metadata_album_artist_name)
  /\ ~Present(r.episode_name)
  /\ ~Present(r.spotify_episode_uri)

\* C3: the loop treats a record as a song exactly when its track name and
\* artist name are strings with a non-blank character and neither its episode
\* name nor its episode URI is; values that are not strings count as empty.
\* So ignoredNonSong counts exactly the records that do not qualify, and every
\* other record is counted as used or as having a bad timestamp.
C3_Classification ==
  /\ acc.ignoredNonSong = Cardinality({i \in 1..Len(records) : ~Qualifies(records[i])})
  /\ acc.songRecordsUsed + acc.ignoredBadTimestamp
       = Cardinality({i \in 1..Len(records) : Qualifies(records[i])})

\* a song with a blank episode name and a non-string episode URI beside a
\* record that only its episode URI disqualifies
C3_Witness ==
  /\ pc = "done"
  /\ \E i \in 1..Len(records) :
       /\ records[i].spotify_episode_uri = Str(<<"h">>)
       /\ Present(records[i].master_metadata_track_name)
       /\ ~Present(records[i].episode_name)
  /\ \E i \in 1..Len(records) :
       records[i].spotify_episode_uri.t = "number" \/ records[i].episode_name = Str(<<"SP">>)
  /\ acc.ignoredNonSong = 1

\* the trimmed (song, artist) pair of a record
SongPair(r) ==
  <<cleanString(r.master_metadata_track_name), cleanString(r.master_metadata_album_artist_name)>>

\* the accepted events of a song
EventsOf(song, artist) == {i \in AcceptedIndices : SongPair(records[i]) = <<song, artist>>}

\* C4: accepted events share a song row exactly when their trimmed (song,
\* artist) pairs are equal: every pair among the accepted events has a row of
\* its own, and uniqueSongs is the number of distinct pairs, whatever
\* characters the strings contain.
C4_RowsAreSongPairs ==
  pc = "done" =>
    /\ report.uniqueSongs = Cardinality({SongPair(records[i]) : i \in AcceptedIndices})
    /\ \A i \in AcceptedIndices :
         \E k \in 1..Len(report.songRows) :
           <<report.songRows[k].song, report.songRows[k].artist>> = SongPair(records[i])

\* C5: every song row's playCount is the number of accepted events of its
\* (song, artist), its totalMs the sum of their sanitized msPlayed, its
\* skipCount the number of them whose skipped value is truthy, and its
\* skipRate the quotient skipCount / playCount.
C5_RowStatistics ==
  pc = "done" =>
    \A k \in 1..Len(report.songRows) :
      LET row == report.songRows[k]
          events == EventsOf(row.song, row.artist)
      IN /\ row.playCount = Cardinality(events)
         /\ row.totalMs = SumOver([i \in events |-> sanitizeMs(records[i].ms_played)], events)
         /\ row.skipCount = Cardinality({i \in events : Truthy(records[i].skipped)})
         /\ row.skipRate = <<row.skipCount, row.playCount>>

\* s with the elements at i and j exchanged
Swap(s, i, j) == [s EXCEPT ![i] = s[j], ![j] = s[i]]

\* a song row without its representative album and URI
WithoutRepresentatives(rows) ==
  [k \in 1..Len(rows) |->
     [song |-> rows[k].song, artist |-> rows[k].artist, playCount |-> rows[k].playCount,
      skipCount |-> rows[k].skipCount, skipRate |-> rows[k].skipRate,
      totalMs |-> rows[k].totalMs]]

\* a report without the representative album and URI of its song rows
Comparable(rep) ==
  [rep EXCEPT !.songRows = WithoutRepresentatives(@),
              !.top10ByPlayCount = WithoutRepresentatives(@),
              !.top10ByTime = WithoutRepresentatives(@),
              !.top10Skipped = WithoutRepresentatives(@)]

\* C6: the report of the input with any two records exchanged (hence of any
\* shuffle of the input) is the report of the input in every field but the
\* representative album and URI of the song rows.
C6_OrderIndependence ==
  pc = "done" =>
    \A i, j \in 1..Len(records) :
      i < j => Comparable(buildReport(Swap(records, i, j))) = Comparable(report)

\* x comes before y in ascending order of strings
Ascending(x, y) == localeCompare(x, y) < 0

\* x and y have the same place in the order of strings
SamePlace(x, y) == localeCompare(x, y) = 0

\* row a comes before row b by artist ascending, then song ascending
NameBefore(a, b) ==
  \/ Ascending(a.artist, b.artist)
  \/ SamePlace(a.artist, b.artist) /\ Ascending(a.song, b.song)

\* row a comes before row b in the order by play count
PlayCountBefore(a, b) ==
  \/ a.playCount > b.playCount
  \/ /\ a.playCount = b.playCount
     /\ \/ a.totalMs > b.totalMs
        \/ /\ a.totalMs = b.totalMs
           /\ \/ a.skipCount > b.skipCount
              \/ a.skipCount = b.skipCount /\ NameBefore(a, b)

\* C7: songRows is in the order playCount descending, then totalMs descending,
\* then skipCount descending, then artist ascending, then song ascending;
\* top10ByPlayCount is its first min(10, |songRows|) rows; and of two distinct
\* song rows one comes before the other in that order.
C7_SongTableOrder ==
  pc = "done" =>
    LET rows == report.songRows
    IN /\ \A i, j \in 1..Len(rows) : i < j => ~PlayCountBefore(rows[j], rows[i])
       /\ report.top10ByPlayCount = SubSeq(rows, 1, Min(TopN, Len(rows)))
       /\ \A i, j \in 1..Len(rows) :
            i # j => PlayCountBefore(rows[i], rows[j]) \/ PlayCountBefore(rows[j], rows[i])

\* row a comes before row b in the order by listening time
ListenTimeBefore(a, b) ==
  \/ a.totalMs > b.totalMs
  \/ /\ a.totalMs = b.totalMs
     /\ \/ a.playCount > b.playCount
        \/ a.playCount = b.playCount /\ NameBefore(a, b)

\* list holds distinct rows of table
Selects(list, table) ==
  /\ \A i \in 1..Len(list) : list[i] \in Range(table)
  /\ \A i, j \in 1..Len(list) : i # j => list[i] # list[j]

\* C8: top10ByTime holds min(10, number of songs) distinct song rows, listed in
\* the order totalMs descending, then playCount descending, then artist
\* ascending, then song ascending, and no song left out comes before a listed
\* one in that order.
C8_TopTenByTime ==
  pc = "done" =>
    LET rows == report.songRows
        top == report.top10ByTime
    IN /\ Len(top) = Min(10, Len(rows))
       /\ Selects(top, rows)
       /\ \A i, j \in 1..Len(top) : i < j => ~ListenTimeBefore(top[j], top[i])
       /\ \A r \in Range(rows) \ Range(top) :
            \A i \in 1..Len(top) : ~ListenTimeBefore(r, top[i])

\* more than ten songs, two listed songs with equal totalMs ranked by
\* playCount, two with equal totalMs and playCount ranked by artist, and the
\* list differs from the first ten rows of the song table
C8_Witness ==
  /\ pc = "done"
  /\ Len(report.songRows) > 10
  /\ report.top10ByTime # SubSeq(report.songRows, 1, 10)
  /\ \E i \in 1..9 :
       /\ report.top10ByTime[i].totalMs = report.top10ByTime[i + 1].totalMs
       /\ report.top10ByTime[i].playCount > report.top10ByTime[i + 1].playCount
  /\ \E i \in 1..9 :
       /\ report.top10ByTime[i].totalMs = report.top10ByTime[i + 1].totalMs
       /\ report.top10ByTime[i].playCount = report.top10ByTime[i + 1].playCount
       /\ Ascending(report.top10ByTime[i].artist, report.top10ByTime[i + 1].artist)

\* row a comes before row b in the order by skip count
SkipCountBefore(a, b) ==
  \/ a.skipCount > b.skipCount
  \/ /\ a.skipCount = b.skipCount
     /\ \/ a.playCount > b.playCount
        \/ a.playCount = b.playCount /\ NameBefore(a, b)

\* the song rows with a skip
SkippedRows == {r \in Range(report.songRows) : r.skipCount > 0}

\* C9: top10Skipped holds only song rows with skipCount > 0, min(10, number of
\* skipped songs) distinct ones, listed in the order skipCount descending, then
\* playCount descending, then artist ascending, then song ascending, and no
\* skipped song left out comes before a listed one in that order.
C9_TopTenSkipped ==
  pc = "done" =>
    LET top == report.top10Skipped
    IN /\ \A i \in 1..Len(top) : top[i].skipCount > 0
       /\ Len(top) = Min(10, Cardinality(SkippedRows))
       /\ Selects(top, report.songRows)
       /\ \A i, j \in 1..Len(top) : i < j => ~SkipCountBefore(top[j], top[i])
       /\ \A r \in SkippedRows \ Range(top) :
            \A i \in 1..Len(top) : ~SkipCountBefore(r, top[i])

\* fewer than ten skipped songs beside songs never skipped, two listed songs
\* with equal skipCount ranked by playCount
C9_Witness ==
  /\ pc = "done"
  /\ Len(report.songRows) > 10
  /\ Len(report.top10Skipped) \in 2..9
  /\ \E r \in Range(report.songRows) : r.skipCount = 0
  /\ \E i \in 1..(Len(report.top10Skipped) - 1) :
       /\ report.top10Skipped[i].skipCount = report.top10Skipped[i + 1].skipCount
       /\ report.top10Skipped[i].playCount > report.top10Skipped[i + 1].playCount

\* the month key of an accepted record
MonthOf(r) == timestampToMonthKey(parseTimestamp(r.ts))

\* the accepted events of a song in a month
MonthEventsOf(month, song, artist) == {i \in EventsOf(song, artist) : MonthOf(records[i]) = month}

\* what a song did in a month
MonthStatistics(month, pair) ==
  LET events == MonthEventsOf(month, pair[1], pair[2])
  IN [song |-> pair[1], artist |-> pair[2], playCount |-> Cardinality(events),
      totalMs |-> SumOver([i \in events |-> sanitizeMs(records[i].ms_played)], events)]

\* the songs with an accepted play in a month, with what they did in it
MonthSongs(month) ==
  {MonthStatistics(month, SongPair(records[i])) :
     i \in {k \in AcceptedIndices : MonthOf(records[k]) = month}}

\* a comes before b in the ranking of a month
MonthlyBefore(a, b) ==
  \/ a.playCount > b.playCount
  \/ /\ a.playCount = b.playCount
     /\ \/ a.totalMs > b.totalMs
        \/ a.totalMs = b.totalMs /\ NameBefore(a, b)

\* C10: top3PerMonthRows lists the months in ascending YYYY-MM order; the rows
\* of a month are min(3, songs played in the month) songs with an accepted
\* play in that month, with the month's playCount and totalMs, ranked 1..k in
\* the order playCount descending, then totalMs descending, then artist
\* ascending, then song ascending, and no song of the month left out comes
\* before a listed one.
C10_MonthlyTopThree ==
  pc = "done" =>
    LET rows == report.top3PerMonthRows
        Listed(month) == {i \in 1..Len(rows) : rows[i].month = month}
        Entry(i) == [song |-> rows[i].song, artist |-> rows[i].artist,
                     playCount |-> rows[i].playCount, totalMs |-> rows[i].totalMs]
    IN /\ \A i, j \in 1..Len(rows) :
            i < j => SeqCmp(CodeUnits(rows[i].month), CodeUnits(rows[j].month)) <= 0
       /\ {rows[i].month : i \in 1..Len(rows)} = {MonthOf(records[i]) : i \in AcceptedIndices}
       /\ \A i \in 1..Len(rows) :
            /\ Entry(i) \in MonthSongs(rows[i].month)
            /\ rows[i].rank = Cardinality({j \in Listed(rows[i].month) : j <= i})
            /\ Cardinality(Listed(rows[i].month))
                 = Min(3, Cardinality(MonthSongs(rows[i].month)))
            /\ \A j \in Listed(rows[i].month) :
                 /\ i # j => Entry(i) # Entry(j)
                 /\ i < j => ~MonthlyBefore(Entry(j), Entry(i))
            /\ \A s \in MonthSongs(rows[i].month) \ {Entry(j) : j \in Listed(rows[i].month)} :
                 ~MonthlyBefore(s, Entry(i))

\* the trimmed artist of a record
ArtistOf(r) == cleanString(r.master_metadata_album_artist_name)

\* what an artist did: the accepted events of the artist, whatever the song
ArtistStatistics(artist) ==
  LET events == {i \in AcceptedIndices : ArtistOf(records[i]) = artist}
  IN [artist |-> artist, playCount |-> Cardinality(events),
      skipCount |-> Cardinality({i \in events : Truthy(records[i].skipped)}),
      totalMs |-> SumOver([i \in events |-> sanitizeMs(records[i].ms_played)], events)]

\* the artists of the accepted events, with what they did
ArtistTable == {ArtistStatistics(artist) : artist \in {ArtistOf(records[i]) : i \in AcceptedIndices}}

\* a comes before b in the order of artists by time
ArtistBefore(a, b) ==
  \/ a.totalMs > b.totalMs
  \/ /\ a.totalMs = b.totalMs
     /\ \/ a.playCount > b.playCount
        \/ a.playCount = b.playCount /\ Ascending(a.artist, b.artist)

\* C11: topArtistsByMinutes holds min(10, number of artists) distinct artists,
\* each with the playCount, skipCount and totalMs of all accepted events of the
\* artist across the artist's songs, listed in the order totalMs descending,
\* then playCount descending, then artist ascending, and no artist left out
\* comes before a listed one in that order.
C11_TopArtists ==
  pc = "done" =>
    LET top == report.topArtistsByMinutes
        table == ArtistTable
    IN /\ Len(top) = Min(10, Cardinality(table))
       /\ \A i \in 1..Len(top) : top[i] \in table
       /\ \A i, j \in 1..Len(top) : i # j => top[i] # top[j]
       /\ \A i, j \in 1..Len(top) : i < j => ~ArtistBefore(top[j], top[i])
       /\ \A a \in table \ Range(top) :
            \A i \in 1..Len(top) : ~ArtistBefore(a, top[i])

\* more than ten artists, a listed artist with two songs, two listed artists
\* with equal totalMs ranked by playCount, and two ranked by name
C11_Witness ==
  /\ pc = "done"
  /\ Cardinality(ArtistTable) > 10
  /\ Len(report.topArtistsByMinutes) = 10
  /\ \E i \in 1..10 :
       Cardinality({SongPair(records[k])[1] :
                      k \in {n \in AcceptedIndices :
                               ArtistOf(records[n]) = report.topArtistsByMinutes[i].artist}}) > 1
  /\ \E i \in 1..9 :
       /\ report.topArtistsByMinutes[i].totalMs = report.topArtistsByMinutes[i + 1].totalMs
       /\ report.topArtistsByMinutes[i].playCount > report.topArtistsByMinutes[i + 1].playCount
  /\ \E i \in 1..9 :
       /\ report.topArtistsByMinutes[i].totalMs = report.topArtistsByMinutes[i + 1].totalMs
       /\ report.topArtistsByMinutes[i].playCount = report.topArtistsByMinutes[i + 1].playCount
       /\ Ascending(report.topArtistsByMinutes[i].artist, report.topArtistsByMinutes[i + 1].artist)

\* the year of an accepted record
YearOf(r) == parseTimestamp(r.ts).year

\* the months and the years of the accepted events
AcceptedMonths == {MonthOf(records[i]) : i \in AcceptedIndices}
AcceptedYears == {YearOf(records[i]) : i \in AcceptedIndices}

\* the milliseconds of the accepted events of a month, of a year
MonthMs(month) ==
  LET events == {i \in AcceptedIndices : MonthOf(records[i]) = month}
  IN SumOver([i \in events |-> sanitizeMs(records[i].ms_played)], events)

YearMs(year) ==
  LET events == {i \in AcceptedIndices : YearOf(records[i]) = year}
  IN SumOver([i \in events |-> sanitizeMs(records[i].ms_played)], events)

\* C12: without accepted events peakMonth and peakYear are absent; otherwise
\* peakMonth is a month of maximal total milliseconds, and among the months of
\* that total the one with the greatest YYYY-MM key; peakYear is a year of
\* maximal total, and among the years of that total the greatest.
C12_PeakPeriods ==
  pc = "done" =>
    IF AcceptedIndices = {}
    THEN report.peakMonth = NoPeak /\ report.peakYear = NoPeak
    ELSE /\ report.peakMonth.key \in AcceptedMonths
         /\ report.peakMonth.totalMs = MonthMs(report.peakMonth.key)
         /\ \A m \in AcceptedMonths :
              \/ MonthMs(m) < report.peakMonth.totalMs
              \/ /\ MonthMs(m) = report.peakMonth.totalMs
                 /\ SeqCmp(CodeUnits(m), CodeUnits(report.peakMonth.key)) <= 0
         /\ report.peakYear.key \in AcceptedYears
         /\ report.peakYear.totalMs = YearMs(report.peakYear.key)
         /\ \A y \in AcceptedYears :
              \/ YearMs(y) < report.peakYear.totalMs
              \/ YearMs(y) = report.peakYear.totalMs /\ y <= report.peakYear.key

\* two months, of two years, share the maximal total
C12_Witness ==
  /\ pc = "done"
  /\ report.peakMonth # NoPeak
  /\ \E m \in AcceptedMonths :
       m # report.peakMonth.key /\ MonthMs(m) = report.peakMonth.totalMs
  /\ \E y \in AcceptedYears :
       y # report.peakYear.key /\ YearMs(y) = report.peakYear.totalMs

\* the trimmed album and track URI of a record
AlbumOf(r) == cleanString(r.master_metadata_album_album_name)
UriOf(r) == cleanString(r.spotify_track_uri)

\* the non-empty values of a field among events
Observed(events, Field(_)) == {Field(records[i]) : i \in events} \ {<<>>}

\* how often, and where first, a value of a field was observed among events
TimesObserved(v, events, Field(_)) == Cardinality({i \in events : Field(records[i]) = v})

FirstObserved(v, events, Field(_)) ==
  CHOOSE i \in events :
    Field(records[i]) = v /\ \A j \in events : Field(records[j]) = v => i <= j

\* x is the most often observed non-empty value of a field among events, the
\* first observed of the values observed most often, or empty when none was
Representative(x, events, Field(_)) ==
  IF Observed(events, Field) = {} THEN x = <<>>
  ELSE /\ x \in Observed(events, Field)
       /\ \A v \in Observed(events, Field) :
            \/ TimesObserved(v, events, Field) < TimesObserved(x, events, Field)
            \/ /\ TimesObserved(v, events, Field) = TimesObserved(x, events, Field)
               /\ FirstObserved(x, events, Field) <= FirstObserved(v, events, Field)

\* C13: the album of every song row is the non-empty album observed most often
\* among the accepted events of the row's (song, artist), the first observed
\* in input order among those observed most often, and empty only when no
\* non-empty album was observed; the same holds, separately, of the track URI.
C13_Representatives ==
  pc = "done" =>
    \A k \in 1..Len(report.songRows) :
      LET row == report.songRows[k]
      IN /\ Representative(row.album, EventsOf(row.song, row.artist), AlbumOf)
         /\ Representative(row.uri, EventsOf(row.song, row.artist), UriOf)

\* the integer nearest to n tenths, the greater of two equally near
Nearest(n) == CHOOSE k \in {n \div 10, (n \div 10) + 1} : 10 * k - 5 <= n /\ n < 10 * k + 5

\* what an ms_played value is to count for
ExpectedMs(value) ==
  LET num == ToNumber(value)
  IN IF num.t \in {"nan", "infinity"} THEN 0
     ELSE IF num.n < 0 THEN 0
     ELSE Nearest(num.n)

\* the totalMs of the entries of a table
TotalsOf(table) == {table[i].totalMs : i \in 1..Len(table)}

\* C14: sanitizeMs gives 0 for an ms_played that is not a finite number or is
\* negative and the nearest integer for any other; a record is accepted
\* whatever its ms_played; every totalMs of every table is a non-negative
\* integer, and the yearly totals add up to what the ms_played values of the
\* accepted records count for.
C14_SanitizedDurations ==
  /\ \A i \in 1..Len(records) :
       sanitizeMs(records[i].ms_played) = ExpectedMs(records[i].ms_played)
  /\ acc.songRecordsUsed = Cardinality(AcceptedIndices)
  /\ \A t \in TotalsOf(acc.songMap) \cup TotalsOf(acc.artistMap)
              \cup TotalsOf(acc.monthlyMs) \cup TotalsOf(acc.yearlyMs) : t \in Nat
  /\ \A m \in 1..Len(acc.monthlySongMap) : TotalsOf(acc.monthlySongMap[m].songs) \subseteq Nat
  /\ SumOver([i \in 1..Len(acc.yearlyMs) |-> acc.yearlyMs[i].totalMs], 1..Len(acc.yearlyMs))
       = SumOver([i \in AcceptedIndices |-> ExpectedMs(records[i].ms_played)], AcceptedIndices)

\* accepted records with the durations -500, 2.5, 2.4, "120.9", Infinity and
\* undefined have been read: 0 + 3 + 2 + 121 + 0 + 0, with true for 1 and 1000
C14_Witness ==
  /\ pc = "done"
  /\ \A v \in {Ms(-500), Num(25), Num(24), Str(<<"1", "2", "0", ".", "9">>), Infinity, Undefined} :
       \E i \in AcceptedIndices : records[i].ms_played = v
  /\ Len(records) = Len(Durations)
  /\ report.songRecordsUsed = Len(Durations)
  /\ report.totalSongMs = 1127

\* the step reads a record that fails classification or has no usable timestamp
ReadsRejected ==
  /\ pc = "loop"
  /\ Len(records') = Len(records) + 1
  /\ ~Accepted(Last(records'))

\* C15: a step of the pass that reads a rejected record leaves the song,
\* artist, monthly-song, monthly-total and yearly-total tables and the count
\* of used records as they are and raises exactly one counter by one:
\* ignoredNonSong when the record fails classification, ignoredBadTimestamp
\* otherwise; and the pass stays in its loop, to read on or to end.
C15_RejectedRecordFrame ==
  [][ReadsRejected =>
          /\ acc'.songMap = acc.songMap
          /\ acc'.artistMap = acc.artistMap
          /\ acc'.monthlySongMap = acc.monthlySongMap
          /\ acc'.monthlyMs = acc.monthlyMs
          /\ acc'.yearlyMs = acc.yearlyMs
          /\ acc'.songRecordsUsed = acc.songRecordsUsed
          /\ IF isSongRecord(Last(records'))
             THEN /\ acc'.ignoredBadTimestamp = acc.ignoredBadTimestamp + 1
                  /\ acc'.ignoredNonSong = acc.ignoredNonSong
             ELSE /\ acc'.ignoredNonSong = acc.ignoredNonSong + 1
                  /\ acc'.ignoredBadTimestamp = acc.ignoredBadTimestamp
          /\ pc' = "loop"]_vars

\* a pass has ended whose last record, a song with a number for ts, was
\* rejected after records had been accepted
C15_Witness ==
  /\ pc = "done"
  /\ report.songRecordsUsed > 0
  /\ report.ignoredNonSong > 0
  /\ Last(records).ts.t = "number"
  /\ isSongRecord(Last(records))
  /\ report.ignoredBadTimestamp = 2

\* the sum of a field of the entries of a table
Total(table, Field(_)) == SumOver([i \in 1..Len(table) |-> Field(table[i])], 1..Len(table))

TotalMsOf(entry) == entry.totalMs
PlayCountOf(entry) == entry.playCount

\* C16: in every report the sum of the song rows' totalMs is totalSongMs, the
\* sum of the monthly rows' totalMs, the sum of the yearly rows' totalMs and
\* the sum of the artists' totalMs; the song rows' playCounts add up to
\* songRecordsUsed, as do the artists'; and every song row has playCount >= 1
\* and 0 <= skipCount <= playCount.
C16_TotalsAgree ==
  pc = "done" =>
    /\ report.totalSongMs = Total(report.songRows, TotalMsOf)
    /\ report.totalSongMs = Total(report.monthlyMinutesRows, TotalMsOf)
    /\ report.totalSongMs = Total(report.yearlyMinutesRows, TotalMsOf)
    /\ report.totalSongMs = Total(acc.artistMap, TotalMsOf)
    /\ report.songRecordsUsed = Total(report.songRows, PlayCountOf)
    /\ report.songRecordsUsed = Total(acc.artistMap, PlayCountOf)
    /\ \A k \in 1..Len(report.songRows) :
         /\ report.songRows[k].playCount >= 1
         /\ report.songRows[k].skipCount >= 0
         /\ report.songRows[k].skipCount <= report.songRows[k].playCount

\* a report over several songs, artists, months and years, with skipped plays
C16_Witness ==
  /\ pc = "done"
  /\ Len(report.songRows) > 1
  /\ Len(acc.artistMap) > 1
  /\ Len(acc.artistMap) < Len(report.songRows)
  /\ Len(report.monthlyMinutesRows) > 2
  /\ Len(report.yearlyMinutesRows) > 1
  /\ Len(report.yearlyMinutesRows) < Len(report.monthlyMinutesRows)
  /\ \E k \in 1..Len(report.songRows) :
       /\ report.songRows[k].skipCount > 0
       /\ report.songRows[k].skipCount < report.songRows[k].playCount
  /\ report.totalSongMs > 0

\* parseUploadedFiles is suspended at one of its awaits
Suspended == run.pc \in {"jsonText", "zipLoad", "zipEntry"}

\* C17: a step that changes the selection (addFiles, clearFiles) while the
\* in-flight parseUploadedFiles is suspended at an await leaves the files it
\* reads as they were: the run reads the files selected at the click.
C17_RunReadsClickedFiles ==
  [][(Suspended /\ stateFiles' # stateFiles) => RunFiles' = RunFiles]_vars

\* log goes on from the entries of earlier
Extends(log, earlier) ==
  Len(log) >= Len(earlier) /\ SubSeq(log, 1, Len(earlier)) = earlier

\* C18: state.processing is set exactly while a run is in flight, and while it
\* is set or no file is selected no step starts a run: without a run in flight
\* the run and the flag stay as they are; with one, the only run there is goes
\* on (it reads on from where it was, its records and the status log only
\* grow) or ends.  A click then changes no state.
C18_OneRunAtATime ==
  [][(processing \/ stateFiles = <<>>) =>
       /\ processing <=> run.pc # "idle"
       /\ run.pc = "idle" => run' = run /\ processing' = processing
       /\ run.pc # "idle" =>
            \/ run' = NoRun /\ ~processing'
            \/ /\ processing'
               /\ run'.index >= run.index
               /\ Extends(run'.records, run.records)
               /\ Extends(statusLog', statusLog)]_vars

\* a run is suspended after it has read a file, with files selected and the
\* Process handler free to be called
C18_Witness ==
  /\ processing
  /\ Suspended
  /\ run.index > 1
  /\ run.records # <<>>
  /\ stateFiles # <<>>
  /\ Len(exported) < MaxExports

\* the entries of a status log with the level error
Errors(log) == {i \in 1..Len(log) : log[i].level = "error"}

\* the step ends a run: the flag is cleared, or the click's run fails at once
\* in validateLibraries
EndsRun ==
  \/ processing /\ ~processing'
  \/ /\ ~processing /\ ~processing'
     /\ statusLog' # statusLog
     /\ statusLog' # <<>>
     /\ Last(statusLog').level = "error"

\* C19: a run that has started ends, with state.processing cleared and no run
\* left in flight, so that the next click starts a run; the status log of a run
\* that ends in failure (no report handed over, or the PDF export rejected)
\* holds exactly one error entry, its last entry, and that of a run that ends
\* in success holds none.
C19_RunsEnd ==
  /\ [][EndsRun =>
          /\ run' = NoRun
          /\ ~processing'
          /\ IF exported' # exported \/ Last(statusLog').level = "ok"
             THEN Errors(statusLog') = {}
             ELSE Errors(statusLog') = {Len(statusLog')}]_vars
  /\ processing ~> ~processing

\* a run has failed in the PDF export, its last step, after the selection was
\* changed during the run
C19_Witness ==
  /\ ~processing
  /\ run = NoRun
  /\ exported = <<"pdf">>
  /\ statusLog # <<>>
  /\ Last(statusLog) = Status("PDF export failed", "error")
  /\ Cardinality(Errors(statusLog)) = 1
  /\ \E i \in 1..Len(statusLog) : statusLog[i].message \in {"added", "cleared"}

====
